---- MODULE Spec2Model ----
(***************************************************************************)
(* Termora: plan execution and safety subsystem.                           *)
(*                                                                         *)
(* Strings of the program are sequences of one-character strings, so that  *)
(* substring tests, prefixes and replacements are computed as Python       *)
(* computes them.  The filesystem is a function from file names to a       *)
(* content version (0 = the file does not exist).                          *)
(***************************************************************************)
EXTENDS Integers, Sequences, FiniteSets, TLC

(***************************************************************************)
(* Bounds of the model.                                                    *)
(***************************************************************************)
MaxActions == 2

(***************************************************************************)
(* Python string operations.                                               *)
(***************************************************************************)
Whitespace == {" ", "\t", "\n"}

LowerLetters ==
    {"a","b","c","d","e","f","g","h","i","j","k","l","m",
     "n","o","p","q","r","s","t","u","v","w","x","y","z"}

UpperLetters ==
    {"A","B","C","D","E","F","G","H","I","J","K","L","M",
     "N","O","P","Q","R","S","T","U","V","W","X","Y","Z"}

UpperString == <<"A","B","C","D","E","F","G","H","I","J","K","L","M",
                 "N","O","P","Q","R","S","T","U","V","W","X","Y","Z">>

LowerString == <<"a","b","c","d","e","f","g","h","i","j","k","l","m",
                 "n","o","p","q","r","s","t","u","v","w","x","y","z">>

\* str.lower() on one character
LowerChar(c) ==
    IF c \in UpperLetters
    THEN LowerString[CHOOSE i \in 1..26 : UpperString[i] = c]
    ELSE c

\* str.lower()
Lower(s) == [i \in 1..Len(s) |-> LowerChar(s[i])]

\* s.startswith(p)
StartsWith(s, p) == Len(p) <= Len(s) /\ SubSeq(s, 1, Len(p)) = p

\* s.endswith(p)
EndsWith(s, p) ==
    Len(p) <= Len(s) /\ SubSeq(s, Len(s) - Len(p) + 1, Len(s)) = p

\* sub in s
Contains(s, sub) ==
    \E i \in 0..(Len(s) - Len(sub)) : SubSeq(s, i + 1, i + Len(sub)) = sub

\* s.replace(old, new), old non-empty: leftmost non-overlapping occurrences
RECURSIVE Replace(_, _, _)
Replace(s, old, new) ==
    IF Len(s) < Len(old) THEN s
    ELSE IF SubSeq(s, 1, Len(old)) = old
         THEN new \o Replace(SubSeq(s, Len(old) + 1, Len(s)), old, new)
         ELSE <<s[1]>> \o Replace(Tail(s), old, new)

\* s.lstrip()
RECURSIVE LStrip(_)
LStrip(s) ==
    IF s # <<>> /\ s[1] \in Whitespace THEN LStrip(Tail(s)) ELSE s

\* s.rstrip()
RECURSIVE RStrip(_)
RStrip(s) ==
    IF s # <<>> /\ s[Len(s)] \in Whitespace
    THEN RStrip(SubSeq(s, 1, Len(s) - 1))
    ELSE s

\* s.strip()
Strip(s) == LStrip(RStrip(s))

\* s.split(): the whitespace-separated words of s
RECURSIVE SplitFrom(_, _, _)
SplitFrom(s, cur, acc) ==
    IF s = <<>>
    THEN IF cur = <<>> THEN acc ELSE Append(acc, cur)
    ELSE IF s[1] \in Whitespace
         THEN SplitFrom(Tail(s), <<>>,
                        IF cur = <<>> THEN acc ELSE Append(acc, cur))
         ELSE SplitFrom(Tail(s), Append(cur, s[1]), acc)

Split(s) == SplitFrom(s, <<>>, <<>>)

\* the elements of a sequence
Range(q) == {q[i] : i \in 1..Len(q)}

(***************************************************************************)
(* termora/utils/helpers.py                                                *)
(***************************************************************************)
destructive_cmds ==
    << <<"r","m">>,
       <<"r","m","d","i","r">>,
       <<"m","v">>,
       <<"d","d">>,
       <<"m","k","f","s">>,
       <<"f","d","i","s","k">>,
       <<"f","o","r","m","a","t">>,
       <<"s","h","u","t","d","o","w","n">>,
       <<"r","e","b","o","o","t">>,
       <<"d","e","l">>,
       <<"t","r","u","n","c","a","t","e">>,
       <<">">>,
       <<"t","e","e">>,
       <<"s","e","d">> >>

\* f" {cmd} " in f" {command} " or command.startswith(f"{cmd} ")
is_destructive_command(command) ==
    \E k \in 1..Len(destructive_cmds) :
        LET cmd == destructive_cmds[k] IN
        \/ Contains(<<" ">> \o command \o <<" ">>, <<" ">> \o cmd \o <<" ">>)
        \/ StartsWith(command, cmd \o <<" ">>)

(***************************************************************************)
(* termora/core/agent.py                                                   *)
(***************************************************************************)
nl_indicators ==
    << <<"f","i","n","d"," ","m","e">>,
       <<"s","h","o","w"," ","m","e">>,
       <<"s","e","a","r","c","h"," ","f","o","r">>,
       <<"l","i","s","t"," ","a","l","l">>,
       <<"c","a","n"," ","y","o","u">>,
       <<"p","l","e","a","s","e">>,
       <<"h","o","w"," ","m","a","n","y">>,
       <<"w","h","e","r","e"," ","a","r","e">>,
       <<"t","e","l","l"," ","m","e">>,
       <<"w","h","a","t"," ","i","s">>,
       <<"h","o","w"," ","d","o">>,
       <<"h","e","l","p"," ","m","e">>,
       <<"i"," ","w","a","n","t">>,
       <<"i"," ","n","e","e","d">>,
       <<"c","o","u","l","d"," ","y","o","u">>,
       <<"w","o","u","l","d"," ","y","o","u">>,
       <<"g","e","t"," ","m","e">> >>

direct_cmd_names ==
    << <<"l","s">>,
       <<"c","d">>,
       <<"m","k","d","i","r">>,
       <<"r","m">>,
       <<"c","p">>,
       <<"m","v">>,
       <<"c","a","t">>,
       <<"e","c","h","o">>,
       <<"g","r","e","p">>,
       <<"f","i","n","d">>,
       <<"g","i","t">>,
       <<"p","y","t","h","o","n">>,
       <<"p","i","p">>,
       <<"n","p","m">>,
       <<"s","s","h">>,
       <<"c","u","r","l">>,
       <<"w","g","e","t">>,
       <<"s","u","d","o">>,
       <<"a","p","t">>,
       <<"b","r","e","w">>,
       <<"o","p","e","n">>,
       <<"t","o","u","c","h">> >>

\* re.search(r'\s-[a-zA-Z]|\s--[a-zA-Z]', input_text)
HasFlagPattern(s) ==
    \/ \E i \in 1..(Len(s) - 2) :
          /\ s[i] \in Whitespace
          /\ s[i + 1] = "-"
          /\ s[i + 2] \in (LowerLetters \cup UpperLetters)
    \/ \E i \in 1..(Len(s) - 3) :
          /\ s[i] \in Whitespace
          /\ s[i + 1] = "-"
          /\ s[i + 2] = "-"
          /\ s[i + 3] \in (LowerLetters \cup UpperLetters)

is_direct_command(raw) ==
    LET input_text == Strip(raw) IN
    IF \E k \in 1..Len(nl_indicators) :
           Contains(Lower(input_text), nl_indicators[k])
    THEN FALSE
    ELSE IF EndsWith(input_text, <<"?">>)
    THEN FALSE
    ELSE \/ Contains(input_text, <<"|">>)
         \/ Contains(input_text, <<">">>) \/ Contains(input_text, <<"<">>)
         \/ Contains(input_text, <<";">>) \/ Contains(input_text, <<"&","&">>)
         \/ \E k \in 1..Len(direct_cmd_names) :
                StartsWith(input_text, direct_cmd_names[k])
         \/ HasFlagPattern(input_text)

(***************************************************************************)
(* ActionPlan (agent.py).  An action is a record with its type, its        *)
(* content and its fallback command (the empty string: no fallback).       *)
(***************************************************************************)
Action(type, content, fallback) ==
    [type |-> type, content |-> content, fallback |-> fallback]

\* ActionPlan.__init__
ActionPlan(explanation, actions, requires_confirmation, requires_backup, backup_paths) ==
    [explanation |-> explanation,
     actions |-> actions,
     requires_confirmation |-> requires_confirmation,
     requires_backup |-> requires_backup,
     backup_paths |-> backup_paths]

cmd_echo_error == <<"e","c","h","o"," ","'","E","r","r","o","r","'">>
cmd_echo_retry == <<"e","c","h","o"," ","'","R","e","t","r","y","'">>

\* TermoraAgent._parse_response: the provider's text parsed into a plan
_parse_response(response) ==
    IF response.kind = "json"
    THEN ActionPlan("ai", response.actions, TRUE,
                    response.requires_backup, response.backup_paths)
    ELSE ActionPlan("unparsed",
                    <<Action("shell_command", cmd_echo_retry, <<>>)>>,
                    TRUE, FALSE, <<>>)

\* a generate_plan whose direct-command plans never ask for a backup
generate_plan_no_backup(user_request, response) ==
    IF is_direct_command(user_request)
    THEN ActionPlan("direct",
                    <<Action("shell_command", user_request, <<>>)>>,
                    is_destructive_command(user_request),
                    FALSE,
                    <<>>)
    ELSE IF response.kind = "exception"
    THEN ActionPlan("error",
                    <<Action("shell_command", cmd_echo_error, <<>>)>>,
                    FALSE, FALSE, <<>>)
    ELSE _parse_response(response)

\* TermoraAgent.generate_plan.  response is what the provider call gives:
\* kind "json" (a JSON object was found), "text" (no JSON in it) or
\* "exception" (process_request raised).
generate_plan(user_request, response) ==
    IF is_direct_command(user_request)
    THEN ActionPlan("direct",
                    <<Action("shell_command", user_request, <<>>)>>,
                    is_destructive_command(user_request),
                    is_destructive_command(user_request),
                    <<>>)
    ELSE IF response.kind = "exception"
    THEN ActionPlan("error",
                    <<Action("shell_command", cmd_echo_error, <<>>)>>,
                    FALSE, FALSE, <<>>)
    ELSE _parse_response(response)

(***************************************************************************)
(* The filesystem and the shell that subprocess.run starts.                *)
(***************************************************************************)
FileA == <<"a">>
FileDelete == <<"d","e","l","e","t","e">>
Files == {FileA, FileDelete}

s_sudo == <<"s","u","d","o">>
s_rm == <<"r","m">>
s_rmdir == <<"r","m","d","i","r">>
s_find == <<"f","i","n","d">>
s_ls == <<"l","s">>
s_echo == <<"e","c","h","o">>
s_false == <<"f","a","l","s","e">>
s_gt == <<">">>
s_dash_delete == <<"-","d","e","l","e","t","e">>
s_dash_v == <<"-","v">>

ShellResult(rc, stdout, f) == [rc |-> rc, stdout |-> stdout, fs |-> f]

Remove(f, targets) == [x \in Files |-> IF x \in targets THEN 0 ELSE f[x]]

\* subprocess.run(cmd, shell=True) on filesystem f: the exit status, the
\* lines written to standard output and the filesystem left behind.
Shell(cmd, f) ==
    LET words == Split(cmd)
        toks == IF words # <<>> /\ words[1] = s_sudo THEN Tail(words)
                ELSE words
        args == Range(toks) \cap Files
        present == {x \in args : f[x] # 0}
    IN  IF toks = <<>> THEN ShellResult(0, {}, f)
        ELSE IF toks[1] = s_rm
        THEN ShellResult(IF args # {} /\ present = args THEN 0 ELSE 1,
                         IF s_dash_v \in Range(toks) THEN present ELSE {},
                         Remove(f, args))
        ELSE IF toks[1] = s_find
        THEN IF s_dash_delete \in Range(toks)
             THEN ShellResult(IF present = args THEN 0 ELSE 1, {},
                              Remove(f, args))
             ELSE ShellResult(IF present = args THEN 0 ELSE 1, present, f)
        ELSE IF toks[1] = s_ls
        THEN ShellResult(0, {x \in Files : f[x] # 0}, f)
        ELSE IF toks[1] = s_echo
        THEN IF \E i \in 1..(Len(toks) - 1) :
                    toks[i] = s_gt /\ toks[i + 1] \in Files
             THEN ShellResult(0, {},
                     [x \in Files |->
                        IF \E i \in 1..(Len(toks) - 1) :
                              toks[i] = s_gt /\ toks[i + 1] = x
                        THEN 2 ELSE f[x]])
             ELSE ShellResult(0, {toks[i] : i \in 2..Len(toks)}, f)
        ELSE IF toks[1] = s_false
        THEN ShellResult(1, {}, f)
        ELSE ShellResult(127, {}, f)

(***************************************************************************)
(* State.                                                                  *)
(***************************************************************************)
VARIABLES
    pc,             \* where process_input / execute_plan stands
    cfg,            \* the executor's construction parameters
    plan,           \* the ActionPlan being executed
    idx,            \* index of the next action of the plan
    outputs,        \* per-action results of the run
    attempts,       \* subprocess invocations of the Run step, in order
    backup_path,    \* archive created for the run (0: none)
    result,         \* what execute_plan returned
    fs,             \* the live filesystem
    archives,       \* the backup store: archive id -> captured contents
    now,            \* the second-resolution clock
    ledger,         \* execution_history.json
    plan_history,   \* HistoryManager's action_plan entries
    spawned,        \* subprocesses started by the run
    confirm_passed, \* the run went through the Confirm state
    user_answer,    \* what the confirmation channel answered, if asked
    backup_failed,  \* create_backup failed in this run
    order,          \* the actions the Run step has processed, in order
    fs0,            \* the filesystem when the input was read
    q_pc,           \* where quick_termora_request stands
    q_plan,         \* the plan quick_termora_request received
    q_idx,          \* index of the action its loop is at
    q_console,      \* what quick_termora_request has shown, in order
    q_runs,         \* the subprocesses it has started, in order
    q_accepted,     \* the actions the user agreed to execute
    q_second,       \* the deletion prompt of the current action
    q_preview,      \* the current action went through the listing step
    q_fs,           \* the filesystem quick_termora works on
    q_fs_before,    \* that filesystem when the current action was accepted
    q_tmp,          \* temporary script files left on disk
    history_file,   \* what execution_history.json holds on disk
    r_saved,        \* the records saved since the file was last damaged
    r_nsaves,       \* save_execution_history calls so far
    r_call,         \* the RollbackManager call that has just ended
    r_arg,          \* the archive id that call was given (0: none)
    r_io,           \* how the file operations went during that call
    l_op,           \* the library function that has just been called
    l_in,           \* the arguments it was given
    l_out           \* what the call produced

qvars == <<q_pc, q_plan, q_idx, q_console, q_runs, q_accepted, q_second,
           q_preview, q_fs, q_fs_before, q_tmp>>

mvars == <<pc, cfg, plan, idx, outputs, attempts, backup_path, result, fs,
           archives, now, ledger, plan_history, spawned, confirm_passed,
           user_answer, backup_failed, order, fs0>>

rvars == <<history_file, r_saved, r_nsaves, r_call, r_arg, r_io>>

lvars == <<l_op, l_in, l_out>>

vars == <<mvars, qvars, rvars, lvars>>

(***************************************************************************)
(* Plan Executor (termora.core.executor.CommandExecutor).                  *)
(***************************************************************************)
KnownKinds == {"shell_command", "python_code"}

s_cancelled == <<"c","a","n","c","e","l","l","e","d">>
s_mv == <<"m","v">>
s_del == <<"d","e","l">>

Output(success, stdout, stderr, return_code) ==
    [success |-> success, stdout |-> stdout, stderr |-> stderr,
     return_code |-> return_code]

\* ActionPlan.commands: the contents of the shell_command actions
commands(p) ==
    LET RECURSIVE Pick(_)
        Pick(q) ==
            IF q = <<>> THEN <<>>
            ELSE IF q[1].type = "shell_command"
                 THEN <<q[1].content>> \o Pick(Tail(q))
                 ELSE Pick(Tail(q))
    IN Pick(p.actions)

\* confirm_execution that does not wait for the user's answer
confirm_execution_deaf(c, answer) ==
    IF c.auto_confirm THEN TRUE
    ELSE IF c.debug THEN FALSE
    ELSE TRUE

\* CommandExecutor.confirm_execution: auto-confirm grants, dry-run denies,
\* otherwise the user's answer decides
confirm_execution(c, answer) ==
    IF c.auto_confirm THEN TRUE
    ELSE IF c.debug THEN FALSE
    ELSE answer

\* CommandExecutor._infer_backup_paths: the paths after rm and mv and the
\* target of a redirection
_infer_backup_paths(cmds) ==
    UNION {
        LET toks == Split(cmds[k]) IN
        {toks[j] : j \in {i \in 2..Len(toks) :
            /\ toks[i][1] # "-"
            /\ \/ \E h \in 1..(i - 1) : toks[h] \in {s_rm, s_mv}
               \/ toks[i - 1] = s_gt}}
        : k \in 1..Len(cmds)}

\* CommandExecutor.create_backup: the contents captured from the paths
\* that exist
create_backup(paths, f) ==
    [x \in Files |-> IF x \in paths THEN f[x] ELSE 0]

\* a command classified destructive whose effect is a delete
NeedsPreview(cmd) ==
    /\ is_destructive_command(cmd)
    /\ Range(Split(cmd)) \cap {s_rm, s_rmdir, s_del} # {}

\* a fallback that runs whenever one is defined
UseFallback_always(a, first) == a.fallback # <<>>

\* the fallback runs when the primary invocation failed
UseFallback(a, first) == first.rc # 0 /\ a.fallback # <<>>

Try(slot, which, rc) == [slot |-> slot, which |-> which, rc |-> rc]

\* One action of the Run step.  accept is the answer to the secondary
\* confirmation, pyrc the exit status of an interpreted-code process.
ExecuteAction(a, slot, f, accept, pyrc) ==
    IF a.type \notin KnownKinds
    THEN [output |-> Output(FALSE, {}, "unknown action type", 1),
          fs |-> f, spawns |-> 0, tries |-> <<>>]
    ELSE IF a.content = <<>>
    THEN [output |-> Output(FALSE, {}, "empty content", 1),
          fs |-> f, spawns |-> 0, tries |-> <<>>]
    ELSE IF a.type = "shell_command" /\ NeedsPreview(a.content) /\ ~accept
    THEN [output |-> Output(TRUE, {s_cancelled}, "", 0),
          fs |-> f, spawns |-> 1, tries |-> <<>>]
    ELSE
      LET pre == IF a.type = "shell_command" /\ NeedsPreview(a.content)
                 THEN 1 ELSE 0
          first == IF a.type = "python_code"
                   THEN ShellResult(pyrc, {}, f)
                   ELSE Shell(a.content, f)
      IN  IF UseFallback(a, first)
          THEN LET second == Shell(a.fallback, first.fs) IN
               [output |-> Output(second.rc = 0, second.stdout,
                                  IF second.rc = 0 THEN "" ELSE "failed",
                                  second.rc),
                fs |-> second.fs, spawns |-> pre + 2,
                tries |-> <<Try(slot, "primary", first.rc),
                            Try(slot, "fallback", second.rc)>>]
          ELSE [output |-> Output(first.rc = 0, first.stdout,
                                  IF first.rc = 0 THEN "" ELSE "failed",
                                  first.rc),
                fs |-> first.fs, spawns |-> pre + 1,
                tries |-> <<Try(slot, "primary", first.rc)>>]

ExecutionResult(executed, reason, outs, backup, cmds) ==
    [executed |-> executed, reason |-> reason, outputs |-> outs,
     backup_path |-> backup, commands |-> cmds]

NoResult == ExecutionResult(FALSE, "pending", <<>>, 0, <<>>)

NoPlan == ActionPlan("none", <<>>, TRUE, FALSE, <<>>)

(***************************************************************************)
(* RollbackManager.save_execution_history and                              *)
(* HistoryManager.add_action_plan.                                         *)
(***************************************************************************)
LedgerCap == 20

\* an aggregate that counts an output without a success field as a success
AllSucceeded_lenient(outs) ==
    \A i \in 1..Len(outs) : "success" \in DOMAIN outs[i] => outs[i].success

AllSucceeded(outs) ==
    \A i \in 1..Len(outs) : "success" \in DOMAIN outs[i] /\ outs[i].success

\* history[-20:]
LastN(h, n) == IF Len(h) <= n THEN h ELSE SubSeq(h, Len(h) - n + 1, Len(h))

\* execution_info.get(key, default)
Get(d, key, default) == IF key \in DOMAIN d THEN d[key] ELSE default

\* the entry save_execution_history builds (its timestamp string, which no
\* decision reads, is left out); backup_path 0 stands for None
HistoryEntry(execution_info) ==
    [commands |-> Get(execution_info, "commands", <<>>),
     backup_path |-> Get(execution_info, "backup_path", 0),
     success |-> AllSucceeded(Get(execution_info, "outputs", <<>>))]

\* a ledger that keeps the first LedgerCap entries instead of the last
save_execution_history_oldest(history, execution_info) ==
    LET h == Append(history, HistoryEntry(execution_info))
    IN  IF Len(h) <= LedgerCap THEN h ELSE SubSeq(h, 1, LedgerCap)

save_execution_history(history, execution_info) ==
    LastN(Append(history, HistoryEntry(execution_info)), LedgerCap)

\* an add_action_plan that takes executed alone for success
add_action_plan_executed(history, p, results) ==
    Append(history,
           [action_type |-> "action_plan",
            explanation |-> p.explanation,
            actions |-> p.actions,
            success |-> results.executed,
            backup_path |-> results.backup_path])

add_action_plan(history, p, results) ==
    Append(history,
           [action_type |-> "action_plan",
            explanation |-> p.explanation,
            actions |-> p.actions,
            success |-> results.executed /\ AllSucceeded(results.outputs),
            backup_path |-> results.backup_path])

(***************************************************************************)
(* What the user types and what the provider answers.                      *)
(***************************************************************************)
cmd_ls == <<"l","s">>
cmd_rm_a == <<"r","m"," ","a">>
cmd_false == <<"f","a","l","s","e">>
cmd_nope == <<"n","o","p","e">>
cmd_find_a_delete == <<"f","i","n","d"," ","a"," ","-","d","e","l","e","t","e">>
cmd_echo_gt_a == <<"e","c","h","o"," ","x"," ",">"," ","a">>
cmd_show_me == <<"s","h","o","w"," ","m","e"," ","a">>
code_pass == <<"p","a","s","s">>

Inputs == {cmd_ls, cmd_rm_a, cmd_find_a_delete, cmd_echo_gt_a, cmd_show_me}

ActionPool ==
    {Action("shell_command", cmd_rm_a, <<>>),
     Action("shell_command", cmd_rm_a, cmd_ls),
     Action("shell_command", cmd_false, cmd_ls),
     Action("shell_command", cmd_false, cmd_nope),
     Action("python_code", code_pass, <<>>),
     Action("mystery", cmd_ls, <<>>),
     Action("shell_command", <<>>, <<>>)}

ActionLists == UNION {[1..n -> ActionPool] : n \in 0..MaxActions}

Response(kind, actions, requires_backup, backup_paths) ==
    [kind |-> kind, actions |-> actions,
     requires_backup |-> requires_backup, backup_paths |-> backup_paths]

Responses ==
    {Response("json", as, rb, bp) :
        as \in ActionLists, rb \in BOOLEAN, bp \in {<<>>, <<FileA>>}}
    \cup {Response("text", <<>>, FALSE, <<>>),
          Response("exception", <<>>, FALSE, <<>>)}

(***************************************************************************)
(* quick_termora before a question has been read.                          *)
(***************************************************************************)
QuickIdle(f) ==
    /\ q_pc = "idle"
    /\ q_plan = NoPlan
    /\ q_idx = 1
    /\ q_console = <<>>
    /\ q_runs = <<>>
    /\ q_accepted = {}
    /\ q_second = "none"
    /\ q_preview = FALSE
    /\ q_fs = f
    /\ q_fs_before = q_fs
    /\ q_tmp = 0

(***************************************************************************)
(* RollbackManager before any of its methods has been called.              *)
(***************************************************************************)
NoEntry == [commands |-> <<>>, backup_path |-> 0, success |-> FALSE]

Call(op, outcome, value, entry, target, copied) ==
    [op |-> op, outcome |-> outcome, value |-> value, entry |-> entry,
     target |-> target, copied |-> copied]

NoCall == Call("none", "returned", "none", NoEntry, 0, {})

RollbackIdle ==
    /\ history_file = "absent"
    /\ r_saved = <<>>
    /\ r_nsaves = 0
    /\ r_call = NoCall
    /\ r_arg = 0
    /\ r_io = "ok"

(***************************************************************************)
(* No library function has been called yet.                                *)
(***************************************************************************)
LibIdle ==
    /\ l_op = "none"
    /\ l_in = [none |-> TRUE]
    /\ l_out = [none |-> TRUE]

(***************************************************************************)
(* Init: the executor is constructed, nothing has run.                     *)
(***************************************************************************)
Init ==
    /\ pc = "idle"
    /\ cfg \in [auto_confirm : BOOLEAN, debug : BOOLEAN,
                stop_on_failure : BOOLEAN]
    /\ plan = NoPlan
    /\ idx = 1
    /\ outputs = <<>>
    /\ attempts = <<>>
    /\ backup_path = 0
    /\ result = NoResult
    /\ fs \in {f \in [Files -> 0..1] : f[FileDelete] = 1}
    /\ archives = <<>>
    /\ now = 1
    /\ ledger = <<>>
    /\ plan_history = <<>>
    /\ spawned = 0
    /\ confirm_passed = FALSE
    /\ user_answer = "none"
    /\ backup_failed = FALSE
    /\ order = <<>>
    /\ fs0 = fs
    /\ QuickIdle([x \in Files |-> 1])
    /\ RollbackIdle
    /\ LibIdle

(***************************************************************************)
(* TermoraCLI.process_input, up to the call of execute_plan.               *)
(***************************************************************************)
ProcessInput(user_input, response) ==
    /\ pc = "idle"
    /\ plan' = generate_plan(user_input, response)
    /\ pc' = "display"
    /\ idx' = 1
    /\ outputs' = <<>>
    /\ attempts' = <<>>
    /\ backup_path' = 0
    /\ result' = NoResult
    /\ spawned' = 0
    /\ confirm_passed' = FALSE
    /\ user_answer' = "none"
    /\ backup_failed' = FALSE
    /\ order' = <<>>
    /\ fs0' = fs
    /\ UNCHANGED <<qvars, rvars, lvars>>
    /\ UNCHANGED <<cfg, fs, archives, now, ledger, plan_history>>

(***************************************************************************)
(* execute_plan, step by step.                                             *)
(***************************************************************************)
Return(res) ==
    /\ result' = res
    /\ pc' = "returned"

\* 1. Display
DisplayPlan ==
    /\ pc = "display"
    /\ pc' = IF plan.requires_confirmation THEN "confirming" ELSE "backup"
    /\ UNCHANGED <<qvars, rvars, lvars>>
    /\ UNCHANGED <<cfg, plan, idx, outputs, attempts, backup_path, result, fs,
                   archives, now, ledger, plan_history, spawned,
                   confirm_passed, user_answer, backup_failed, order, fs0>>

\* 2. Confirm
ConfirmExecution(answer) ==
    /\ pc = "confirming"
    /\ confirm_passed' = TRUE
    /\ user_answer' = IF cfg.auto_confirm \/ cfg.debug THEN "none"
                      ELSE IF answer THEN "yes" ELSE "no"
    /\ IF confirm_execution(cfg, answer)
       THEN pc' = "backup" /\ UNCHANGED result
       ELSE Return(ExecutionResult(FALSE,
                IF cfg.debug THEN "Debug mode" ELSE "cancelled by user",
                <<>>, 0, <<>>))
    /\ UNCHANGED <<qvars, rvars, lvars>>
    /\ UNCHANGED <<cfg, plan, idx, outputs, attempts, backup_path, fs,
                   archives, now, ledger, plan_history, spawned,
                   backup_failed, order, fs0>>

\* dry-run (debug) mode of the executor
dry_run_unless_auto(c) == c.debug /\ ~c.auto_confirm

dry_run(c) == c.debug

\* dry-run: nothing is executed
DebugMode ==
    /\ pc = "backup"
    /\ dry_run(cfg)
    /\ Return(ExecutionResult(FALSE, "Debug mode", <<>>, 0, <<>>))
    /\ UNCHANGED <<qvars, rvars, lvars>>
    /\ UNCHANGED <<cfg, plan, idx, outputs, attempts, backup_path, fs,
                   archives, now, ledger, plan_history, spawned,
                   confirm_passed, user_answer, backup_failed, order, fs0>>

AfterBackup == IF plan.actions = <<>> THEN "complete" ELSE "run"

\* 3. Backup, not required
SkipBackup ==
    /\ pc = "backup"
    /\ ~dry_run(cfg)
    /\ ~plan.requires_backup
    /\ pc' = AfterBackup
    /\ UNCHANGED <<qvars, rvars, lvars>>
    /\ UNCHANGED <<cfg, plan, idx, outputs, attempts, backup_path, result, fs,
                   archives, now, ledger, plan_history, spawned,
                   confirm_passed, user_answer, backup_failed, order, fs0>>

\* a Backup step that goes on to the Run step when the archive cannot be
\* written
CreateBackup_unchecked(writable, dt) ==
    /\ pc = "backup"
    /\ ~dry_run(cfg)
    /\ plan.requires_backup
    /\ IF writable
       THEN LET paths == IF plan.backup_paths # <<>>
                         THEN Range(plan.backup_paths)
                         ELSE _infer_backup_paths(commands(plan))
                id == now + dt
            IN  /\ now' = id
                /\ archives' = (id :> create_backup(paths, fs)) @@ archives
                /\ backup_path' = id
                /\ UNCHANGED backup_failed
       ELSE /\ backup_failed' = TRUE
            /\ UNCHANGED <<now, archives, backup_path>>
    /\ pc' = AfterBackup
    /\ UNCHANGED <<qvars, rvars, lvars>>
    /\ UNCHANGED <<cfg, plan, idx, outputs, attempts, fs, ledger, result,
                   plan_history, spawned, confirm_passed, user_answer,
                   order, fs0>>

\* 3. Backup, required: writable says whether the backup store can be
\* written, dt how many seconds passed since the previous archive
CreateBackup(writable, dt) ==
    /\ pc = "backup"
    /\ ~dry_run(cfg)
    /\ plan.requires_backup
    /\ IF writable
       THEN LET paths == IF plan.backup_paths # <<>>
                         THEN Range(plan.backup_paths)
                         ELSE _infer_backup_paths(commands(plan))
                id == now + dt
            IN  /\ now' = id
                /\ archives' = (id :> create_backup(paths, fs)) @@ archives
                /\ backup_path' = id
                /\ pc' = AfterBackup
                /\ UNCHANGED <<result, backup_failed>>
       ELSE /\ Return(ExecutionResult(FALSE, "backup failed", <<>>, 0, <<>>))
            /\ backup_failed' = TRUE
            /\ UNCHANGED <<now, archives, backup_path>>
    /\ UNCHANGED <<qvars, rvars, lvars>>
    /\ UNCHANGED <<cfg, plan, idx, outputs, attempts, fs, ledger,
                   plan_history, spawned, confirm_passed, user_answer,
                   order, fs0>>

\* a Run step that halts at a failed action in either mode
Halts_always(c, out) == ~out.success

\* stop-on-failure mode halts the plan at a failed action
Halts(c, out) == c.stop_on_failure /\ ~out.success

\* 4. Run: the next action of the plan
RunAction(accept, pyrc) ==
    /\ pc = "run"
    /\ idx <= Len(plan.actions)
    /\ LET r == ExecuteAction(plan.actions[idx], idx, fs, accept, pyrc) IN
        /\ outputs' = Append(outputs, r.output)
        /\ attempts' = attempts \o r.tries
        /\ fs' = r.fs
        /\ spawned' = spawned + r.spawns
        /\ idx' = idx + 1
        /\ order' = Append(order, plan.actions[idx])
        /\ pc' = IF idx = Len(plan.actions) \/ Halts(cfg, r.output)
                 THEN "complete" ELSE "run"
    /\ UNCHANGED <<qvars, rvars, lvars>>
    /\ UNCHANGED <<cfg, plan, backup_path, result, archives, now, ledger,
                   plan_history, confirm_passed, user_answer, backup_failed,
                   fs0>>

\* 5. Complete
Complete ==
    /\ pc = "complete"
    /\ Return(ExecutionResult(TRUE, "", outputs, backup_path, commands(plan)))
    /\ UNCHANGED <<qvars, rvars, lvars>>
    /\ UNCHANGED <<cfg, plan, idx, outputs, attempts, backup_path, fs,
                   archives, now, ledger, plan_history, spawned,
                   confirm_passed, user_answer, backup_failed, order, fs0>>

(***************************************************************************)
(* TermoraCLI.process_input, after execute_plan has returned.              *)
(***************************************************************************)
\* a process_input that also writes the ledger while the plan is running
RecordHistory_early ==
    \/ /\ pc = "complete"
       /\ ledger' = save_execution_history(ledger,
                        ExecutionResult(TRUE, "", outputs, backup_path,
                                        commands(plan)))
       /\ UNCHANGED <<pc, cfg, plan, idx, outputs, attempts, backup_path,
                      result, fs, archives, now, plan_history, spawned,
                      confirm_passed, user_answer, backup_failed, order, fs0>>
       /\ UNCHANGED <<qvars, rvars, lvars>>
    \/ /\ pc = "returned"
       /\ pc' = "done"
       /\ IF result.executed
          THEN /\ ledger' = save_execution_history(ledger, result)
               /\ plan_history' = add_action_plan(plan_history, plan, result)
          ELSE UNCHANGED <<ledger, plan_history>>
       /\ UNCHANGED <<cfg, plan, idx, outputs, attempts, backup_path, result,
                      fs, archives, now, spawned, confirm_passed, user_answer,
                      backup_failed, order, fs0>>
       /\ UNCHANGED <<qvars, rvars, lvars>>

\* a process_input that records every result, executed or not
RecordHistory_always ==
    /\ pc = "returned"
    /\ pc' = "done"
    /\ ledger' = save_execution_history(ledger, result)
    /\ plan_history' = add_action_plan(plan_history, plan, result)
    /\ UNCHANGED <<qvars, rvars, lvars>>
    /\ UNCHANGED <<cfg, plan, idx, outputs, attempts, backup_path, result, fs,
                   archives, now, spawned, confirm_passed, user_answer,
                   backup_failed, order, fs0>>

RecordHistory ==
    /\ pc = "returned"
    /\ pc' = "done"
    /\ IF result.executed
       THEN /\ ledger' = save_execution_history(ledger, result)
            /\ plan_history' = add_action_plan(plan_history, plan, result)
       ELSE UNCHANGED <<ledger, plan_history>>
    /\ UNCHANGED <<qvars, rvars, lvars>>
    /\ UNCHANGED <<cfg, plan, idx, outputs, attempts, backup_path, result, fs,
                   archives, now, spawned, confirm_passed, user_answer,
                   backup_failed, order, fs0>>

\* TermoraCLI.start_repl: a line is read and handed to process_input
start_repl ==
    /\ pc = "idle"
    /\ \E u \in Inputs, r \in Responses : ProcessInput(u, r)

Next ==
    \/ start_repl
    \/ DisplayPlan
    \/ \E answer \in BOOLEAN : ConfirmExecution(answer)
    \/ DebugMode
    \/ SkipBackup
    \/ \E writable \in BOOLEAN, dt \in 0..1 : CreateBackup(writable, dt)
    \/ \E accept \in BOOLEAN, pyrc \in 0..1 : RunAction(accept, pyrc)
    \/ Complete
    \/ RecordHistory

Spec == Init /\ [][Next]_vars

(***************************************************************************)
(* quick_termora (termora/cli/quick_termora.py).                           *)
(***************************************************************************)
s_delete == <<"d","e","l","e","t","e">>
s_remove == <<"r","e","m","o","v","e">>
s_unlink == <<"u","n","l","i","n","k">>
s_grep == <<"g","r","e","p">>
s_sp_dash_delete == <<" ","-","d","e","l","e","t","e">>
s_dash_name == <<"-","n","a","m","e">>
s_deleted == <<"d","e","l","e","t","e","d">>
s_no_match == <<"n","o"," ","m","a","t","c","h">>

\* TermoraAgent.process_request: an exception of the provider call is not
\* caught here, the caller sees it
process_request(user_request, response) ==
    IF is_direct_command(user_request)
    THEN ActionPlan("direct",
                    <<Action("shell_command", user_request, <<>>)>>,
                    is_destructive_command(user_request),
                    is_destructive_command(user_request),
                    <<>>)
    ELSE _parse_response(response)

\* quick_termora_request's own test: a destructive word anywhere in the
\* lower-cased content
quick_is_destructive(content) ==
    \E word \in {s_delete, s_remove, s_rm, s_unlink} :
        Contains(Lower(content), word)

\* the first index at which sub occurs in s (0: nowhere)
IndexOf(s, sub) ==
    IF Contains(s, sub)
    THEN CHOOSE i \in 1..(Len(s) - Len(sub) + 1) :
            /\ SubSeq(s, i, i + Len(sub) - 1) = sub
            /\ \A j \in 1..(i - 1) : SubSeq(s, j, j + Len(sub) - 1) # sub
    ELSE 0

\* s.split(sep)[1], for an s that contains sep
SplitAt1(s, sep) ==
    LET rest == SubSeq(s, IndexOf(s, sep) + Len(sep), Len(s))
    IN  IF Contains(rest, sep) THEN SubSeq(rest, 1, IndexOf(rest, sep) - 1)
        ELSE rest

Entry(slot, kind, success, stdout, stderr) ==
    [slot |-> slot, kind |-> kind, success |-> success, stdout |-> stdout,
     stderr |-> stderr]

\* display_results(success, stdout, stderr)
display_results(slot, r) ==
    Entry(slot, "result", r.success, r.stdout, r.stderr)

QuickRun(slot, cmd, phase) == [slot |-> slot, cmd |-> cmd, phase |-> phase]

QuickResult(success, stdout, stderr, f) ==
    [success |-> success, stdout |-> stdout, stderr |-> stderr, fs |-> f]

\* execute_shell_command, the listing step: the command with " -delete"
\* taken out is run first
ListStep(command, f) ==
    LET list_cmd == Replace(command, s_sp_dash_delete, <<>>)
        list_result == Shell(list_cmd, f)
    IN  [list_cmd |-> list_cmd, rc |-> list_result.rc,
         files |-> list_result.stdout, fs |-> list_result.fs]

\* execute_shell_command, from "Execute the actual command" to its return
RunCommand(command, is_destructive, f) ==
    LET res == Shell(command, f)
        is_search == \E c \in {s_find, s_grep, s_ls} : Contains(command, c)
    IN  IF /\ res.rc = 0 /\ res.stdout = {} /\ is_search
           /\ Contains(command, s_find) /\ Contains(command, s_dash_name)
        THEN IF \/ Split(Strip(SplitAt1(command, s_dash_name))) = <<>>
                \/ Split(Strip(SplitAt1(command, s_find))) = <<>>
             THEN QuickResult(FALSE, {}, "list index out of range", res.fs)
             ELSE QuickResult(TRUE, {s_no_match}, "", res.fs)
        ELSE IF is_destructive /\ res.rc = 0
        THEN IF Len(Split(command)) < 2
             THEN QuickResult(FALSE, {}, "list index out of range", res.fs)
             ELSE QuickResult(TRUE, {s_deleted}, "", res.fs)
        ELSE QuickResult(res.rc = 0, res.stdout,
                         IF res.rc = 0 THEN "" ELSE "command failed", res.fs)

\* What quick_termora is asked and what the provider answers.  No command
\* names ~/Desktop, so execute_shell_command's path expansion does not apply.
cmd_rm_delete == <<"r","m"," ","d","e","l","e","t","e">>
cmd_rm_v_delete == <<"r","m"," ","-","v"," ","d","e","l","e","t","e">>
cmd_find_name_x == <<"f","i","n","d"," ","-","n","a","m","e"," ","x">>

QuickQuestions == {cmd_ls, cmd_find_a_delete, cmd_show_me}

QuickPool ==
    {Action("shell_command", cmd_find_a_delete, <<>>),
     Action("shell_command", cmd_rm_v_delete, <<>>),
     Action("shell_command", cmd_rm_delete, <<>>),
     Action("shell_command", cmd_rm_a, <<>>),
     Action("shell_command", cmd_ls, <<>>),
     Action("shell_command", cmd_find_name_x, <<>>),
     Action("shell_command", <<>>, <<>>),
     Action("python_code", code_pass, <<>>),
     Action("python_code", <<>>, <<>>),
     Action("mystery", cmd_ls, <<>>)}

QuickLists == UNION {[1..n -> QuickPool] : n \in 0..MaxActions}

QuickResponses ==
    {Response("json", as, FALSE, <<>>) : as \in QuickLists}
    \cup {Response("text", <<>>, FALSE, <<>>),
          Response("exception", <<>>, FALSE, <<>>)}

QuickInit ==
    /\ pc = "idle"
    /\ cfg = [auto_confirm |-> FALSE, debug |-> FALSE,
              stop_on_failure |-> FALSE]
    /\ plan = NoPlan
    /\ idx = 1
    /\ outputs = <<>>
    /\ attempts = <<>>
    /\ backup_path = 0
    /\ result = NoResult
    /\ fs = [x \in Files |-> 1]
    /\ archives = <<>>
    /\ now = 1
    /\ ledger = <<>>
    /\ plan_history = <<>>
    /\ spawned = 0
    /\ confirm_passed = FALSE
    /\ user_answer = "none"
    /\ backup_failed = FALSE
    /\ order = <<>>
    /\ fs0 = fs
    /\ \E f \in {g \in [Files -> 0..1] : g[FileDelete] = 1} : QuickIdle(f)
    /\ RollbackIdle
    /\ LibIdle

\* quick_termora_request up to its loop over plan.actions
QuickRequest(question, response) ==
    /\ q_pc = "idle"
    /\ IF ~is_direct_command(question) /\ response.kind = "exception"
       THEN /\ q_console' = <<Entry(0, "error", FALSE, {}, "Error")>>
            /\ q_pc' = "done"
            /\ UNCHANGED q_plan
       ELSE /\ q_plan' = process_request(question, response)
            /\ IF q_plan'.actions = <<>>
               THEN /\ q_console' =
                         <<Entry(0, "no_actions", TRUE, {}, "")>>
                    /\ q_pc' = "done"
               ELSE /\ q_console' = <<>>
                    /\ q_pc' = "confirm"
    /\ q_idx' = 1
    /\ UNCHANGED <<q_runs, q_accepted, q_second, q_preview, q_fs,
                   q_fs_before, q_tmp>>
    /\ UNCHANGED <<mvars, rvars, lvars>>

\* the loop goes on to the next action, or ends
NextAction ==
    /\ q_idx' = q_idx + 1
    /\ q_pc' = IF q_idx = Len(q_plan.actions) THEN "done" ELSE "confirm"

\* the user answers get_user_confirmation with what the flag says
Answered(accept) ==
    /\ q_pc = "confirm"
    /\ q_accepted' = IF accept THEN q_accepted \cup {q_idx} ELSE q_accepted
    /\ q_fs_before' = q_fs

\* get_user_confirmation is declined: "Skipping this action."
QuickSkip ==
    /\ Answered(FALSE)
    /\ q_console' = Append(q_console, Entry(q_idx, "skipped", TRUE, {}, ""))
    /\ NextAction
    /\ q_second' = "none"
    /\ q_preview' = FALSE
    /\ UNCHANGED <<q_plan, q_runs, q_fs, q_tmp>>
    /\ UNCHANGED <<mvars, rvars, lvars>>

\* a shell_command action is accepted: execute_shell_command runs up to its
\* return or, if the listing step found files, up to its own prompt
QuickShell ==
    /\ Answered(TRUE)
    /\ q_plan.actions[q_idx].type = "shell_command"
    /\ LET command == q_plan.actions[q_idx].content
           is_destructive == quick_is_destructive(command)
       IN  IF is_destructive /\ Contains(Lower(command), s_delete)
           THEN LET l == ListStep(command, q_fs)
                IN  /\ q_preview' = TRUE
                    /\ q_runs' = Append(q_runs,
                                        QuickRun(q_idx, l.list_cmd, "list"))
                    /\ q_fs' = l.fs
                    /\ IF l.rc = 0 /\ l.files # {}
                       THEN /\ q_second' = "asked"
                            /\ q_pc' = "secondary"
                            /\ UNCHANGED <<q_idx, q_console>>
                       ELSE /\ q_second' = "none"
                            /\ q_console' = Append(q_console,
                                 display_results(q_idx,
                                   QuickResult(FALSE, {},
                                     IF l.rc = 0
                                     THEN "No files found to delete"
                                     ELSE "Error listing files", l.fs)))
                            /\ NextAction
           ELSE LET r == RunCommand(command, is_destructive, q_fs)
                IN  /\ q_preview' = FALSE
                    /\ q_second' = "none"
                    /\ q_runs' = Append(q_runs,
                                        QuickRun(q_idx, command, "run"))
                    /\ q_fs' = r.fs
                    /\ q_console' = Append(q_console,
                                           display_results(q_idx, r))
                    /\ NextAction
    /\ UNCHANGED <<q_plan, q_tmp>>
    /\ UNCHANGED <<mvars, rvars, lvars>>

\* the user answers "Are you sure you want to delete these files?"
QuickSecondary(answer) ==
    /\ q_pc = "secondary"
    /\ LET command == q_plan.actions[q_idx].content
           r == RunCommand(command, quick_is_destructive(command), q_fs)
       IN  IF answer
           THEN /\ q_second' = "granted"
                /\ q_runs' = Append(q_runs, QuickRun(q_idx, command, "run"))
                /\ q_fs' = r.fs
                /\ q_console' = Append(q_console, display_results(q_idx, r))
           ELSE /\ q_second' = "declined"
                /\ q_console' = Append(q_console,
                     display_results(q_idx,
                       QuickResult(TRUE, {s_cancelled}, "", q_fs)))
                /\ UNCHANGED <<q_runs, q_fs>>
    /\ NextAction
    /\ UNCHANGED <<q_plan, q_accepted, q_preview, q_fs_before, q_tmp>>
    /\ UNCHANGED <<mvars, rvars, lvars>>

\* a python_code action is accepted: execute_python_code.  launched is
\* whether subprocess.run could start the interpreter; if it raises, the
\* unlink of the temporary file is not reached.
QuickPython(launched, pyrc) ==
    /\ Answered(TRUE)
    /\ q_plan.actions[q_idx].type = "python_code"
    /\ LET code == q_plan.actions[q_idx].content
           rc == IF Strip(code) = <<>> THEN 0 ELSE pyrc
       IN  IF launched
           THEN /\ q_runs' = Append(q_runs, QuickRun(q_idx, code, "python"))
                /\ q_console' = Append(q_console,
                     display_results(q_idx,
                       QuickResult(rc = 0, {},
                         IF rc = 0 THEN "" ELSE "Traceback", q_fs)))
                /\ UNCHANGED q_tmp
           ELSE /\ q_tmp' = q_tmp + 1
                /\ q_console' = Append(q_console,
                     display_results(q_idx,
                       QuickResult(FALSE, {}, "exception", q_fs)))
                /\ UNCHANGED q_runs
    /\ NextAction
    /\ q_second' = "none"
    /\ q_preview' = FALSE
    /\ UNCHANGED <<q_plan, q_fs>>
    /\ UNCHANGED <<mvars, rvars, lvars>>

\* an accepted action of any other type: "Unknown action type", continue
QuickUnknown ==
    /\ Answered(TRUE)
    /\ q_plan.actions[q_idx].type \notin {"shell_command", "python_code"}
    /\ q_console' = Append(q_console,
         Entry(q_idx, "unknown_type", FALSE, {}, "Unknown action type"))
    /\ NextAction
    /\ q_second' = "none"
    /\ q_preview' = FALSE
    /\ UNCHANGED <<q_plan, q_runs, q_fs, q_tmp>>
    /\ UNCHANGED <<mvars, rvars, lvars>>

\* main_async: a question is read and handed to quick_termora_request
main_async ==
    /\ q_pc = "idle"
    /\ \E q \in QuickQuestions, r \in QuickResponses : QuickRequest(q, r)

QuickNext ==
    \/ main_async
    \/ QuickSkip
    \/ QuickShell
    \/ \E answer \in BOOLEAN : QuickSecondary(answer)
    \/ \E launched \in BOOLEAN, pyrc \in 0..1 : QuickPython(launched, pyrc)
    \/ QuickUnknown

SpecQuick == QuickInit /\ [][QuickNext]_vars

(***************************************************************************)
(* RollbackManager (termora/core/rollback.py).                             *)
(***************************************************************************)
MaxSaves == 3

\* __init__: "self.console = Console()," binds a one-element tuple, so
\* every self.console.print(...) raises AttributeError
console_is_tuple == TRUE

\* what open(history_file) and json.load make of the file
\*   "absent"     no such file
\*   "valid"      the JSON array last written
\*   "empty"      a file of length zero         (json.JSONDecodeError)
\*   "truncated"  text that is not JSON         (json.JSONDecodeError)
\*   "binary"     bytes that are not text       (UnicodeDecodeError)
FileStates == {"absent", "valid", "empty", "truncated", "binary"}

\* RollbackManager.get_last_execution
get_last_execution(file, history) ==
    IF file = "absent"
    THEN Call("get_last_execution", "returned", "none", NoEntry, 0, {})
    ELSE IF file = "binary"
    THEN Call("get_last_execution", "UnicodeDecodeError", "none", NoEntry,
              0, {})
    ELSE IF file \in {"empty", "truncated"}
    THEN Call("get_last_execution", "returned", "none", NoEntry, 0, {})
    ELSE IF history = <<>>
    THEN Call("get_last_execution", "returned", "none", NoEntry, 0, {})
    ELSE Call("get_last_execution", "returned", "entry",
              history[Len(history)], 0, {})

\* a restore that unpacks the archive over the filesystem as a mirror, before
\* it reports anything: files that are not in the archive are removed
_restore_from_backup_mirror(id, store, f, io, done) ==
    IF id \notin DOMAIN store \/ io = "extract"
    THEN [call |-> Call("_restore_from_backup", "returned", "false",
                        NoEntry, id, {}),
          fs |-> f]
    ELSE [call |-> Call("_restore_from_backup", "returned", "true",
                        NoEntry, id, {x \in Files : store[id][x] # 0}),
          fs |-> store[id]]

\* RollbackManager._restore_from_backup on archive id of the store.  io is
\* how the file operations go: "ok", "extract" (the archive cannot be
\* read) or "copy" (a copy fails after the files in done were copied).
\* The first print raises inside the try block, and the print of the
\* except branch raises again, out of the method.
_restore_from_backup(id, store, f, io, done) ==
    IF console_is_tuple
    THEN [call |-> Call("_restore_from_backup", "AttributeError", "none",
                        NoEntry, id, {}),
          fs |-> f]
    ELSE IF id \notin DOMAIN store \/ io = "extract"
    THEN [call |-> Call("_restore_from_backup", "returned", "false",
                        NoEntry, id, {}),
          fs |-> f]
    ELSE LET captured == {x \in Files : store[id][x] # 0}
             failed == io = "copy" /\ captured \ done # {}
             copied == IF failed THEN captured \cap done ELSE captured
         IN  [call |-> Call("_restore_from_backup", "returned",
                            IF failed THEN "false" ELSE "true",
                            NoEntry, id, copied),
              fs |-> [x \in Files |->
                        IF x \in copied THEN store[id][x] ELSE f[x]]]

Renamed(r, op) == [r EXCEPT !.call = [r.call EXCEPT !.op = op]]

\* RollbackManager.rollback_last
rollback_last(file, history, store, f, io, done) ==
    LET last == get_last_execution(file, history)
        op == "rollback_last"
    IN  IF last.outcome # "returned"
        THEN [call |-> [last EXCEPT !.op = op], fs |-> f]
        ELSE IF \/ last.value = "none"
                \/ last.entry.backup_path = 0
                \/ last.entry.backup_path \notin DOMAIN store
        THEN [call |-> IF console_is_tuple
                       THEN Call(op, "AttributeError", "none", NoEntry, 0, {})
                       ELSE Call(op, "returned", "false", NoEntry, 0, {}),
              fs |-> f]
        ELSE IF console_is_tuple
        THEN [call |-> Call(op, "AttributeError", "none", NoEntry, 0, {}),
              fs |-> f]
        ELSE Renamed(_restore_from_backup(last.entry.backup_path, store, f,
                                          io, done), op)

\* RollbackManager.rollback_specific
rollback_specific(backup_id, store, f, io, done) ==
    LET op == "rollback_specific"
    IN  IF backup_id \notin DOMAIN store
        THEN [call |-> IF console_is_tuple
                       THEN Call(op, "AttributeError", "none", NoEntry, 0, {})
                       ELSE Call(op, "returned", "false", NoEntry, 0, {}),
              fs |-> f]
        ELSE IF console_is_tuple
        THEN [call |-> Call(op, "AttributeError", "none", NoEntry, 0, {}),
              fs |-> f]
        ELSE Renamed(_restore_from_backup(backup_id, store, f, io, done), op)

\* What the RollbackManager is handed.
FillerInfo ==
    [executed |-> TRUE, commands |-> <<cmd_ls>>, backup_path |-> 0,
     outputs |-> <<>>]

SaveInfos ==
    {[executed |-> TRUE, commands |-> <<cmd_ls>>, backup_path |-> 0,
      outputs |-> <<Output(TRUE, {}, "", 0)>>],
     [executed |-> TRUE, commands |-> <<cmd_rm_a>>, backup_path |-> 1,
      outputs |-> <<Output(TRUE, {}, "", 0), Output(FALSE, {}, "failed", 1)>>],
     [executed |-> TRUE, commands |-> <<cmd_rm_a, cmd_ls>>, backup_path |-> 2,
      outputs |-> <<[stdout |-> {}, stderr |-> ""]>>],
     [executed |-> TRUE]}

ArchiveIds == {1, 2}

IoOutcomes == {"ok", "extract", "copy"}

\* a RollbackManager whose store holds one archive, of file a, and with no
\* ledger or one written by LedgerCap - 1 earlier executions
RollbackInit ==
    /\ pc = "idle"
    /\ cfg = [auto_confirm |-> FALSE, debug |-> FALSE,
              stop_on_failure |-> FALSE]
    /\ plan = NoPlan
    /\ idx = 1
    /\ outputs = <<>>
    /\ attempts = <<>>
    /\ backup_path = 0
    /\ result = NoResult
    /\ fs = [x \in Files |-> 1]
    /\ archives = 1 :> create_backup({FileA}, fs)
    /\ now = 1
    /\ plan_history = <<>>
    /\ spawned = 0
    /\ confirm_passed = FALSE
    /\ user_answer = "none"
    /\ backup_failed = FALSE
    /\ order = <<>>
    /\ fs0 = fs
    /\ QuickIdle([x \in Files |-> 1])
    /\ \E pre \in {0, LedgerCap - 1} :
          /\ ledger = [i \in 1..pre |-> HistoryEntry(FillerInfo)]
          /\ r_saved = [i \in 1..pre |-> FillerInfo]
          /\ history_file = IF pre = 0 THEN "absent" ELSE "valid"
    /\ r_nsaves = 0
    /\ r_call = NoCall
    /\ r_arg = 0
    /\ r_io = "ok"
    /\ LibIdle

RollbackFrame ==
    /\ UNCHANGED <<pc, cfg, plan, idx, outputs, attempts, backup_path,
                   result, now, plan_history, spawned, confirm_passed,
                   user_answer, backup_failed, order, fs0>>
    /\ UNCHANGED <<qvars, lvars>>

\* save_execution_history(execution_info) is called
SaveHistory(execution_info) ==
    /\ r_nsaves < MaxSaves
    /\ r_nsaves' = r_nsaves + 1
    /\ IF history_file = "binary"
       THEN /\ r_call' = Call("save_execution_history", "UnicodeDecodeError",
                              "none", NoEntry, 0, {})
            /\ UNCHANGED <<ledger, history_file, r_saved>>
       ELSE /\ ledger' = save_execution_history(
                            IF history_file = "valid" THEN ledger ELSE <<>>,
                            execution_info)
            /\ history_file' = "valid"
            /\ r_saved' = Append(r_saved, execution_info)
            /\ r_call' = Call("save_execution_history", "returned", "none",
                              NoEntry, 0, {})
    /\ r_arg' = 0
    /\ r_io' = "ok"
    /\ UNCHANGED <<fs, archives>>
    /\ RollbackFrame

\* get_last_execution() is called
GetLastExecution ==
    /\ r_call' = get_last_execution(history_file, ledger)
    /\ r_arg' = 0
    /\ r_io' = "ok"
    /\ UNCHANGED <<fs, archives, ledger, history_file, r_saved, r_nsaves>>
    /\ RollbackFrame

\* rollback_last() is called
RollbackLast(io, done) ==
    /\ LET r == rollback_last(history_file, ledger, archives, fs, io, done)
       IN  r_call' = r.call /\ fs' = r.fs
    /\ r_arg' = 0
    /\ r_io' = io
    /\ UNCHANGED <<archives, ledger, history_file, r_saved, r_nsaves>>
    /\ RollbackFrame

\* rollback_specific(backup_id) is called
RollbackSpecific(backup_id, io, done) ==
    /\ LET r == rollback_specific(backup_id, archives, fs, io, done)
       IN  r_call' = r.call /\ fs' = r.fs
    /\ r_arg' = backup_id
    /\ r_io' = io
    /\ UNCHANGED <<archives, ledger, history_file, r_saved, r_nsaves>>
    /\ RollbackFrame

\* _restore_from_backup(backup_path) is called
RestoreFromBackup(backup_id, io, done) ==
    /\ LET r == _restore_from_backup(backup_id, archives, fs, io, done)
       IN  r_call' = r.call /\ fs' = r.fs
    /\ r_arg' = backup_id
    /\ r_io' = io
    /\ UNCHANGED <<archives, ledger, history_file, r_saved, r_nsaves>>
    /\ RollbackFrame

\* the files are changed after the backup: file a is rewritten or removed
ModifyFiles(content) ==
    /\ fs[FileA] # content
    /\ fs' = [fs EXCEPT ![FileA] = content]
    /\ r_call' = NoCall
    /\ UNCHANGED <<archives, ledger, history_file, r_saved, r_nsaves, r_arg,
                   r_io>>
    /\ RollbackFrame

\* an archive file is removed from the backup directory
RemoveArchive ==
    /\ archives # <<>>
    /\ archives' = <<>>
    /\ r_call' = NoCall
    /\ UNCHANGED <<fs, ledger, history_file, r_saved, r_nsaves, r_arg, r_io>>
    /\ RollbackFrame

\* the history file is removed, emptied or overwritten from outside
DamageHistoryFile(state) ==
    /\ history_file # state
    /\ history_file' = state
    /\ ledger' = <<>>
    /\ r_saved' = <<>>
    /\ r_call' = NoCall
    /\ UNCHANGED <<fs, archives, r_nsaves, r_arg, r_io>>
    /\ RollbackFrame

\* how the file operations of a restore go, and, when a copy fails, the
\* files copied before it
IoCases ==
    {<<io, {}>> : io \in IoOutcomes \ {"copy"}}
    \cup {<<"copy", done>> : done \in SUBSET Files}

RollbackNext ==
    \/ \E info \in SaveInfos : SaveHistory(info)
    \/ GetLastExecution
    \/ \E c \in IoCases : RollbackLast(c[1], c[2])
    \/ \E id \in ArchiveIds, c \in IoCases : RollbackSpecific(id, c[1], c[2])
    \/ \E id \in ArchiveIds, c \in IoCases :
          RestoreFromBackup(id, c[1], c[2])
    \/ \E content \in {0, 2} : ModifyFiles(content)
    \/ RemoveArchive
    \/ \E state \in FileStates \ {"valid"} : DamageHistoryFile(state)

SpecRollback == RollbackInit /\ [][RollbackNext]_vars

(***************************************************************************)
(* Library functions, each called once on arguments drawn from bounded     *)
(* sets.  l_op names the function, l_in holds its arguments, l_out its     *)
(* result.                                                                 *)
(***************************************************************************)
LibCall(op, in, out) ==
    /\ l_op = "none"
    /\ l_op' = op
    /\ l_in' = in
    /\ l_out' = out
    /\ UNCHANGED <<mvars, qvars, rvars>>

(***************************************************************************)
(* RollbackManager.list_backups (termora/core/rollback.py).                *)
(***************************************************************************)
MaxStore == 3

\* the characters of the timestamps, in code point order
CodeChars ==
    <<" ", "-", "0", "1", "2", "3", "4", "5", "6", "7", "8", "9", ":",
      "U", "k", "n", "o", "w">>

CodePoint(c) == CHOOSE i \in 1..Len(CodeChars) : CodeChars[i] = c

Digits == {"0", "1", "2", "3", "4", "5", "6", "7", "8", "9"}

DigitVal(c) == CodePoint(c) - 3

\* s < t, as Python compares two strings
RECURSIVE StrLess(_, _)
StrLess(s, t) ==
    IF t = <<>> THEN FALSE
    ELSE IF s = <<>> THEN TRUE
    ELSE IF s[1] = t[1] THEN StrLess(Tail(s), Tail(t))
    ELSE CodePoint(s[1]) < CodePoint(t[1])

s_backup_ == <<"b","a","c","k","u","p","_">>
s_tar_gz == <<".","t","a","r",".","g","z">>
s_Unknown == <<"U","n","k","n","o","w","n">>

\* backup_dir.glob("backup_*.tar.gz") keeps these names of the directory
GlobMatches(filename) ==
    /\ Len(filename) >= Len(s_backup_) + Len(s_tar_gz)
    /\ StartsWith(filename, s_backup_)
    /\ EndsWith(filename, s_tar_gz)

TwoDigits(ts, i) == 10 * DigitVal(ts[i]) + DigitVal(ts[i + 1])

\* datetime.strptime(ts, "%Y%m%d_%H%M%S") succeeds (for stamps whose fields
\* are written with all their digits)
strptime_ok(ts) ==
    /\ Len(ts) = 15
    /\ \A i \in (1..8) \cup (10..15) : ts[i] \in Digits
    /\ ts[9] = "_"
    /\ TwoDigits(ts, 5) \in 1..12
    /\ TwoDigits(ts, 7) \in 1..31
    /\ TwoDigits(ts, 10) \in 0..23
    /\ TwoDigits(ts, 12) \in 0..59
    /\ TwoDigits(ts, 14) \in 0..59

\* timestamp.strftime("%Y-%m-%d %H:%M:%S")
strftime(ts) ==
    SubSeq(ts, 1, 4) \o <<"-">> \o SubSeq(ts, 5, 6) \o <<"-">>
      \o SubSeq(ts, 7, 8) \o <<" ">> \o SubSeq(ts, 10, 11) \o <<":">>
      \o SubSeq(ts, 12, 13) \o <<":">> \o SubSeq(ts, 14, 15)

\* filename[7:-7]
timestamp_str(filename) == SubSeq(filename, 8, Len(filename) - 7)

formatted_time(filename) ==
    IF strptime_ok(timestamp_str(filename))
    THEN strftime(timestamp_str(filename))
    ELSE s_Unknown

BackupInfo(filename) ==
    [id |-> filename, timestamp |-> formatted_time(filename)]

\* list.sort(key = timestamp, reverse = True): descending, and entries with
\* equal keys stay in the order they had
RECURSIVE InsertDescending(_, _)
InsertDescending(sorted, e) ==
    IF sorted = <<>> THEN <<e>>
    ELSE IF StrLess(sorted[1].timestamp, e.timestamp)
         THEN <<e>> \o sorted
         ELSE <<sorted[1]>> \o InsertDescending(Tail(sorted), e)

RECURSIVE SortDescending(_, _)
SortDescending(todo, sorted) ==
    IF todo = <<>> THEN sorted
    ELSE SortDescending(Tail(todo), InsertDescending(sorted, todo[1]))

\* the entries appended by the loop over the directory listing
RECURSIVE Scanned(_)
Scanned(listing) ==
    IF listing = <<>> THEN <<>>
    ELSE IF GlobMatches(listing[1])
         THEN <<BackupInfo(listing[1])>> \o Scanned(Tail(listing))
         ELSE Scanned(Tail(listing))

\* listing: the names of the backup directory in the order the scan yields
\* them; vanished: os.path.getsize fails for one of the matching archives,
\* and the except branch prints to self.console
list_backups(listing, vanished) ==
    LET scanned == Scanned(listing)
        fails == vanished /\ scanned # <<>>
    IN  IF fails /\ console_is_tuple
        THEN [outcome |-> "AttributeError", backups |-> <<>>]
        ELSE [outcome |-> "returned",
              backups |-> SortDescending(
                             IF fails THEN Tail(scanned) ELSE scanned,
                             <<>>)]

stamp_jan == <<"2","0","2","3","0","1","0","1","_","1","2","0","0","0","0">>
stamp_feb == <<"2","0","2","3","0","2","0","1","_","0","9","3","0","0","0">>
stamp_bad == <<"2","0","2","3","1","3","0","1","_","0","0","0","0","0","0">>
stamp_old == <<"o","l","d">>

ArchiveName(stamp) == s_backup_ \o stamp \o s_tar_gz

StoreNames ==
    {ArchiveName(stamp_jan), ArchiveName(stamp_feb), ArchiveName(stamp_bad),
     ArchiveName(stamp_old), <<"n","o","t","e","s">>}

\* directory listings: up to MaxStore distinct names, in any order
Listings ==
    {q \in UNION {[1..n -> StoreNames] : n \in 0..MaxStore} :
        \A i, j \in 1..Len(q) : i # j => q[i] # q[j]}

ListBackups(listing, vanished) ==
    LibCall("list_backups", [listing |-> listing, vanished |-> vanished],
            list_backups(listing, vanished))

(***************************************************************************)
(* is_destructive_command (termora/utils/helpers.py), on command lines     *)
(* made of up to MaxWords words.                                           *)
(***************************************************************************)
MaxWords == 2

w_firmware == <<"f","i","r","m","w","a","r","e">>
w_update == <<"u","p","d","a","t","e">>

CommandWords == {s_rm, s_gt, s_ls, FileA, w_firmware, w_update}

Separators == {" ", "\t"}

Padding == {<<>>, <<" ">>}

\* sep.join(words)
RECURSIVE Join(_, _)
Join(words, sep) ==
    IF Len(words) = 1 THEN words[1]
    ELSE words[1] \o <<sep>> \o Join(Tail(words), sep)

\* up to MaxWords words with one separator between them, with or without
\* blanks before and after
CommandLines ==
    {lead \o Join(q, sep) \o trail :
        lead \in Padding, trail \in Padding, sep \in Separators,
        q \in UNION {[1..n -> CommandWords] : n \in 1..MaxWords}}

IsDestructive(command) ==
    LibCall("is_destructive_command", [command |-> command],
            [value |-> is_destructive_command(command)])

(***************************************************************************)
(* TermoraPipeline.process (termora/core/pipeline.py).                     *)
(***************************************************************************)
\* TermoraPipeline.__init__ sets no console attribute, so the first
\* self.console.print of _debug_step raises AttributeError
pipeline_has_console == FALSE

\* ActionPlan.__init__ has no reasoning parameter, so the call in
\* _convert_to_action_plan raises TypeError
ActionPlan_takes_reasoning == FALSE

\* the stage at which a collaborator raises, if one does
Stages == {"none", "context", "intent", "plan", "execute", "log"}

\* what the agent's second completion is parsed into
TermoraPlan(actions, requires_backup) ==
    [plan |-> actions, preview |-> "natural_language",
     requires_backup |-> requires_backup, backup_paths |-> <<>>,
     reasoning |-> "reasoning"]

\* the action lists the agent's answer may hold
GeneratedLists ==
    UNION {[1..n -> {Action("shell_command", cmd_rm_a, cmd_ls),
                     Action("python_code", code_pass, <<>>)}] :
              n \in 0..MaxActions}

TermoraPlans ==
    {TermoraPlan(as, rb) : as \in GeneratedLists, rb \in BOOLEAN}

\* what executor.execute_plan hands back
ExecutorResults ==
    {[executed |-> TRUE, reason |-> "none"],
     [executed |-> FALSE, reason |-> "Execution cancelled by user"]}

_convert_to_action_plan(p) ==
    ActionPlan(p.preview, p.plan, TRUE, p.requires_backup, p.backup_paths)

PipelineError(stage) ==
    [executed |-> FALSE, reason |-> "Pipeline error", failed |-> stage]

Processed(outcome, res, calls, saves) ==
    [outcome |-> outcome, result |-> res, execute_plan |-> calls,
     logged |-> saves]

\* process(user_input) with self.debug = debug: fail_at names the stage
\* whose collaborator raises, generated is the plan the agent produced,
\* accept the answer to "Execute this plan?", executed the result of the
\* executor
process(debug, fail_at, generated, accept, executed) ==
    IF debug /\ ~pipeline_has_console
    THEN Processed("AttributeError", [raised |-> TRUE], <<>>, 0)
    ELSE IF fail_at \in {"context", "intent", "plan"}
    THEN Processed("returned", PipelineError(fail_at), <<>>, 0)
    ELSE IF ~ActionPlan_takes_reasoning
    THEN Processed("returned", PipelineError("convert"), <<>>, 0)
    ELSE IF debug /\ ~accept
    THEN Processed("returned",
                   [executed |-> FALSE,
                    reason |-> "Execution cancelled by user"], <<>>, 0)
    ELSE LET action_plan == _convert_to_action_plan(generated)
         IN  IF fail_at = "execute"
             THEN Processed("returned", PipelineError(fail_at),
                            <<action_plan>>, 0)
             ELSE IF executed.executed /\ fail_at = "log"
             THEN Processed("returned", PipelineError(fail_at),
                            <<action_plan>>, 0)
             ELSE Processed("returned", executed, <<action_plan>>,
                            IF executed.executed THEN 1 ELSE 0)

Process(debug, fail_at, generated, accept, executed) ==
    LibCall("process",
            [debug |-> debug, fail_at |-> fail_at, generated |-> generated,
             accept |-> accept, executed |-> executed],
            process(debug, fail_at, generated, accept, executed))

(***************************************************************************)
(* ActionPlan.to_dict and ActionPlan.from_dict (termora/core/agent.py).    *)
(***************************************************************************)
PlanKeys ==
    {"explanation", "actions", "requires_confirmation", "requires_backup",
     "backup_paths"}

to_dict(p) ==
    [explanation |-> p.explanation,
     actions |-> p.actions,
     requires_confirmation |-> p.requires_confirmation,
     requires_backup |-> p.requires_backup,
     backup_paths |-> p.backup_paths]

\* a from_dict that does not read requires_confirmation
from_dict_confirming(data) ==
    ActionPlan(Get(data, "explanation", ""),
               Get(data, "actions", <<>>),
               TRUE,
               Get(data, "requires_backup", FALSE),
               Get(data, "backup_paths", <<>>))

from_dict(data) ==
    ActionPlan(Get(data, "explanation", ""),
               Get(data, "actions", <<>>),
               Get(data, "requires_confirmation", TRUE),
               Get(data, "requires_backup", FALSE),
               Get(data, "backup_paths", <<>>))

Plans ==
    {ActionPlan(e, as, rc, rb, bp) :
        e \in {"ai"}, as \in GeneratedLists, rc \in BOOLEAN, rb \in BOOLEAN,
        bp \in {<<>>, <<FileA>>}}

\* the keys a dictionary handed to from_dict holds: all of them, all but
\* one, the two mandatory ones, or none
KeySets ==
    {PlanKeys, {"explanation", "actions"}, {}}
    \cup {PlanKeys \ {k} : k \in PlanKeys}

\* p.to_dict(), the dictionary cut down to keys, and from_dict of that
FromDict(p, keys) ==
    LET data == [k \in keys |-> to_dict(p)[k]]
    IN  LibCall("from_dict", [plan |-> p, keys |-> keys],
                [data |-> data, plan |-> from_dict(data)])

(***************************************************************************)
(* TermoraAgent.generate_plan (termora/core/agent.py) on its own.          *)
(***************************************************************************)
\* what the provider may answer when it is asked at all
DirectResponses ==
    {Response("json", <<>>, FALSE, <<>>),
     Response("text", <<>>, FALSE, <<>>),
     Response("exception", <<>>, FALSE, <<>>)}

GeneratePlan(user_request, response) ==
    LibCall("generate_plan",
            [user_request |-> user_request, response |-> response],
            [plan |-> generate_plan(user_request, response)])

(***************************************************************************)
(* HistoryManager.search_history (termora/core/history.py).                *)
(***************************************************************************)
MaxHistory == 3
MaxLimit == 2

\* the field of an entry that the query is matched against
SearchedField(entry_type) ==
    IF entry_type = "shell_command" THEN "command"
    ELSE IF entry_type = "python_code" THEN "code"
    ELSE "explanation"

\* the filters of search_history applied to one entry; "" and the empty
\* query stand for the arguments left at None or ""
Matches(entry, query, directory, action_type) ==
    /\ action_type # "" => Get(entry, "action_type", "none") = action_type
    /\ LET entry_type == Get(entry, "action_type", "shell_command")
       IN  (query # <<>>
              /\ entry_type \in {"shell_command", "python_code",
                                 "action_plan"})
             => Contains(Lower(Get(entry, SearchedField(entry_type), <<>>)),
                         Lower(query))
    /\ directory # "" => Get(entry, "directory", "none") = directory

\* the loop over reversed(self.history), at index i, with results so far
RECURSIVE SearchFrom(_, _, _, _, _, _, _)
SearchFrom(history, i, results, query, directory, limit, action_type) ==
    IF i = 0 THEN results
    ELSE IF ~Matches(history[i], query, directory, action_type)
    THEN SearchFrom(history, i - 1, results, query, directory, limit,
                    action_type)
    ELSE IF Len(results) + 1 >= limit
    THEN Append(results, history[i])
    ELSE SearchFrom(history, i - 1, Append(results, history[i]), query,
                    directory, limit, action_type)

search_history(history, query, directory, limit, action_type) ==
    SearchFrom(history, Len(history), <<>>, query, directory, limit,
               action_type)

\* the entries add_command, add_python_execution and add_action_plan write
EntryKinds ==
    {[action_type |-> "shell_command", command |-> cmd_ls,
      directory |-> "/home"],
     [action_type |-> "shell_command", command |-> cmd_rm_a,
      directory |-> "/tmp"],
     [action_type |-> "python_code", code |-> code_pass,
      directory |-> "/home"],
     [action_type |-> "action_plan", explanation |-> cmd_ls,
      directory |-> "/home"]}

\* entry number i of a history, stamped with the time it was added
Stamped(kind, i) ==
    [k \in DOMAIN kind \cup {"unix_timestamp"} |->
        IF k = "unix_timestamp" THEN i ELSE kind[k]]

Histories ==
    {[i \in 1..Len(q) |-> Stamped(q[i], i)] :
        q \in UNION {[1..n -> EntryKinds] : n \in 0..MaxHistory}}

Queries == {<<>>, <<"L","S">>, <<"r","m">>}

SearchHistory(history, query, directory, limit, action_type) ==
    LibCall("search_history",
            [history |-> history, query |-> query, directory |-> directory,
             limit |-> limit, action_type |-> action_type],
            [results |->
                search_history(history, query, directory, limit,
                               action_type)])

\* each function is called from the state in which none has been called
CallListBackups ==
    /\ l_op = "none"
    /\ \E listing \in Listings, vanished \in BOOLEAN :
            ListBackups(listing, vanished)

CallIsDestructive ==
    /\ l_op = "none"
    /\ \E command \in CommandLines : IsDestructive(command)

CallProcess ==
    /\ l_op = "none"
    /\ \E debug \in BOOLEAN, fail_at \in Stages, generated \in TermoraPlans,
          accept \in BOOLEAN, executed \in ExecutorResults :
            Process(debug, fail_at, generated, accept, executed)

CallFromDict ==
    /\ l_op = "none"
    /\ \E p \in Plans, keys \in KeySets : FromDict(p, keys)

CallGeneratePlan ==
    /\ l_op = "none"
    /\ \E user_request \in Inputs \cup CommandLines,
          response \in DirectResponses :
            GeneratePlan(user_request, response)

CallSearchHistory ==
    /\ l_op = "none"
    /\ \E history \in Histories, query \in Queries,
          directory \in {"", "/home"}, limit \in 0..MaxLimit,
          action_type \in {"", "shell_command", "action_plan"} :
            SearchHistory(history, query, directory, limit, action_type)

LibNext ==
    \/ CallListBackups
    \/ CallIsDestructive
    \/ CallProcess
    \/ CallFromDict
    \/ CallGeneratePlan
    \/ CallSearchHistory

\* nothing else of the program runs while the functions are exercised
LibInit == QuickInit /\ q_fs = [x \in Files |-> 1]

SpecLib == LibInit /\ [][LibNext]_vars

(***************************************************************************)
(* Properties of execute_plan and process_input.                           *)
(***************************************************************************)
Returned == pc \in {"returned", "done"}

\* C1: when a required backup cannot be created, execute_plan returns
\* executed = false with a reason naming the backup failure, no outputs,
\* and no action of the plan is executed in that run.
C1_BackupFailureAborts ==
    backup_failed =>
        /\ plan.requires_backup
        /\ Returned
        /\ ~result.executed
        /\ result.reason = "backup failed"
        /\ result.outputs = <<>>
        /\ outputs = <<>>
        /\ order = <<>>
        /\ attempts = <<>>
        /\ spawned = 0
        /\ fs = fs0

C1_Witness ==
    /\ backup_failed
    /\ pc = "done"
    /\ Len(plan.actions) = MaxActions

\* C2: no action of a plan handed to execute_plan executes before the
\* plan has passed through the Confirm state.
C2_ConfirmBeforeAnyAction ==
    (order # <<>> \/ spawned > 0) => confirm_passed

\* C3: a plan that requires confirmation, run by an executor in dry-run
\* (debug) mode, returns executed = false with the reason naming that mode,
\* produces no outputs, spawns no subprocess and leaves the files
\* unchanged, auto-confirm or not.
C3_DryRunExecutesNothing ==
    (cfg.debug /\ pc # "idle" /\ plan.requires_confirmation) =>
        /\ outputs = <<>>
        /\ order = <<>>
        /\ attempts = <<>>
        /\ spawned = 0
        /\ fs = fs0
        /\ Returned =>
              /\ ~result.executed
              /\ result.reason = "Debug mode"
              /\ result.outputs = <<>>

C3_Witness ==
    /\ pc = "done"
    /\ cfg.debug
    /\ cfg.auto_confirm
    /\ plan.requires_confirmation
    /\ plan.requires_backup
    /\ plan.actions # <<>>
    /\ result.reason = "Debug mode"

\* C4: when the plan requires confirmation and the user declines,
\* execute_plan returns executed = false with reason "cancelled by user",
\* no outputs, no archive is created and no action runs.
C4_DeclineCancels ==
    user_answer = "no" =>
        /\ plan.requires_confirmation
        /\ Returned
        /\ ~result.executed
        /\ result.reason = "cancelled by user"
        /\ result.outputs = <<>>
        /\ outputs = <<>>
        /\ order = <<>>
        /\ attempts = <<>>
        /\ spawned = 0
        /\ backup_path = 0
        /\ DOMAIN archives = {}
        /\ ~backup_failed
        /\ fs = fs0

C4_Witness ==
    /\ user_answer = "no"
    /\ pc = "done"
    /\ plan.requires_backup
    /\ plan.actions # <<>>

\* the actions processed so far are a prefix of the plan, one output each
C5_InListOrder ==
    /\ Len(order) <= Len(plan.actions)
    /\ order = SubSeq(plan.actions, 1, Len(order))
    /\ Len(outputs) = Len(order)

\* a required backup exists before the first action is processed
C5_BackupFirst ==
    (order # <<>> /\ plan.requires_backup) =>
        (backup_path # 0 /\ backup_path \in DOMAIN archives)

\* the ledger is written only once execute_plan has returned
C5_LedgerAfterReturn ==
    [][ledger' # ledger =>
          /\ pc = "returned"
          /\ result.executed
          /\ result.outputs = outputs
          /\ outputs' = outputs]_vars

\* C5: the actions of a plan execute strictly in list order, a required
\* backup is complete before the first action starts, and the ledger is
\* appended to only after execute_plan has returned.
C5_Ordering ==
    /\ [](C5_InListOrder /\ C5_BackupFirst)
    /\ C5_LedgerAfterReturn

C5_Witness ==
    /\ pc = "done"
    /\ Len(ledger) = 1
    /\ Len(order) = 2
    /\ order[1] # order[2]
    /\ plan.requires_backup

\* C6: every result of execute_plan has one output per action attempted,
\* in order, so no more outputs than actions, and executed = true implies
\* that at least one action was attempted.
C6_ResultInvariant ==
    Returned =>
        /\ result.executed => result.outputs = outputs
        /\ Len(result.outputs) = Len(order) \/ ~result.executed
        /\ Len(result.outputs) <= Len(plan.actions)
        /\ result.executed => Len(result.outputs) >= 1

\* C7: once the Run step has started nothing cancels it: in
\* continue-on-failure mode every action is attempted, in stop-on-failure
\* mode the outputs end with the first failed action, and the result has
\* executed = true even if every attempted action failed.
C7_NoMidPlanCancel ==
    /\ pc = "run" => idx <= Len(plan.actions)
    /\ (Returned /\ order # <<>>) =>
        /\ result.executed
        /\ result.outputs = outputs
        /\ ~cfg.stop_on_failure => Len(outputs) = Len(plan.actions)
        /\ cfg.stop_on_failure =>
              /\ \A i \in 1..(Len(outputs) - 1) : outputs[i].success
              /\ Len(outputs) < Len(plan.actions) =>
                    ~outputs[Len(outputs)].success

C7_Witness ==
    /\ pc = "done"
    /\ ~cfg.stop_on_failure
    /\ Len(outputs) = 2
    /\ ~outputs[1].success
    /\ ~outputs[2].success
    /\ result.executed

TriesOf(slot, which) ==
    {k \in 1..Len(attempts) :
        attempts[k].slot = slot /\ attempts[k].which = which}

\* C8: the fallback of an action is attempted exactly when its primary
\* invocation failed, at most once, and then the recorded output is the
\* fallback's result; otherwise it is the primary's.
C8_FallbackRecorded ==
    \A i \in 1..Len(outputs) :
        LET a == plan.actions[i]
            P == TriesOf(i, "primary")
            F == TriesOf(i, "fallback")
        IN  /\ Cardinality(P) <= 1
            /\ Cardinality(F) <= 1
            /\ (F # {}) <=>
                  (a.fallback # <<>> /\ \E k \in P : attempts[k].rc # 0)
            /\ \A k \in F :
                  /\ \A j \in P : j < k
                  /\ outputs[i].return_code = attempts[k].rc
                  /\ outputs[i].success = (attempts[k].rc = 0)
            /\ F = {} =>
                  \A k \in P :
                      /\ outputs[i].return_code = attempts[k].rc
                      /\ outputs[i].success = (attempts[k].rc = 0)

C8_Witness ==
    /\ pc = "done"
    /\ \E i \in 1..Len(outputs) :
          /\ outputs[i].success
          /\ \E k \in TriesOf(i, "primary") : attempts[k].rc # 0
          /\ \E k \in TriesOf(i, "fallback") : attempts[k].rc = 0

\* C18: the ledger gains exactly one entry when a plan's result has
\* executed = true, and stays as it was when the plan was cancelled, run in
\* dry-run mode or aborted on a backup failure; nothing is written before
\* execute_plan has returned.
C18_OneEntryPerExecutedPlan ==
    /\ pc # "done" => ledger = <<>>
    /\ pc = "done" => Len(ledger) = (IF result.executed THEN 1 ELSE 0)
    /\ (pc = "done" /\ result.executed) =>
           ledger[1].commands = result.commands

\* an executed plan and its ledger entry
C18_Witness ==
    /\ pc = "done"
    /\ result.executed
    /\ result.outputs # <<>>
    /\ Len(ledger) = 1

(***************************************************************************)
(* Properties of quick_termora_request.                                    *)
(***************************************************************************)
\* an action the executor must reject: unknown kind, or empty content
Malformed(a) == a.type \notin KnownKinds \/ Strip(a.content) = <<>>

\* C9: an accepted action with an unknown kind or an empty content is never
\* run and never passed over in silence: no subprocess is started for it,
\* once the loop has left it the console holds a failed entry with an error
\* text for it, and the loop goes on to the actions after it.
C9_MalformedRejected ==
    \A i \in q_accepted :
        Malformed(q_plan.actions[i]) =>
            /\ \A k \in 1..Len(q_runs) : q_runs[k].slot # i
            /\ (q_idx > i \/ q_pc = "done") =>
                   \E k \in 1..Len(q_console) :
                       /\ q_console[k].slot = i
                       /\ ~q_console[k].success
                       /\ q_console[k].stderr # ""

\* C10: the listing step leaves the filesystem as it was: while an action
\* that went through it is the current one, the files are changed only
\* once the deletion prompt has been answered with yes.
C10_PreviewNonDestructive ==
    q_preview => (q_fs = q_fs_before \/ q_second = "granted")

\* C11: when the deletion prompt of an action is declined, the action's
\* command has not been run, the console holds a successful entry with the
\* explanatory text for it, and the loop has gone on to the next action (or
\* ended, after the last one).
C11_DeclineSkipsOnlyThatAction ==
    q_second = "declined" =>
        LET i == q_idx - 1
            a == q_plan.actions[i]
            last == q_console[Len(q_console)]
        IN  /\ \A k \in 1..Len(q_runs) :
                   q_runs[k].slot = i => q_runs[k].cmd # a.content
            /\ q_fs = q_fs_before
            /\ last.slot = i /\ last.success /\ last.stdout = {s_cancelled}
            /\ q_pc = IF i = Len(q_plan.actions) THEN "done" ELSE "confirm"

\* C12: once execute_python_code has returned, its temporary script file is
\* gone, whether the script succeeded, failed or could not be started.
C12_NoTemporaryLeftBehind == q_tmp = 0

(***************************************************************************)
(* Properties of the RollbackManager.                                      *)
(***************************************************************************)
Captured(id) == {x \in Files : archives[id][x] # 0}

\* C13: _restore_from_backup never raises: it returns true or false, true
\* only if every file of the archive was copied, false whenever the
\* archive could not be read or a copy failed, and the files it did copy
\* hold the archive's contents.
C13_RestoreNeverRaises ==
    r_call.op = "_restore_from_backup" =>
        /\ r_call.outcome = "returned"
        /\ r_call.value \in {"true", "false"}
        /\ r_call.value = "true" =>
               r_arg \in DOMAIN archives /\ r_call.copied = Captured(r_arg)
        /\ (r_arg \notin DOMAIN archives \/ r_io = "extract") =>
               r_call.value = "false"
        /\ \A x \in r_call.copied : fs[x] = archives[r_arg][x]

LastBackup ==
    IF history_file = "valid" /\ ledger # <<>>
       /\ ledger[Len(ledger)].backup_path \in DOMAIN archives
    THEN ledger[Len(ledger)].backup_path
    ELSE 0

\* C15: rollback_last does not raise; with no ledger entry, no backup in
\* the last entry or a missing archive it returns false and restores
\* nothing; otherwise it restores the archive of the last ledger entry and
\* returns what the restore returned.
C15_RollbackLast ==
    r_call.op = "rollback_last" =>
        /\ r_call.outcome = "returned"
        /\ r_call.value \in {"true", "false"}
        /\ r_call.target = LastBackup
        /\ LastBackup = 0 => r_call.value = "false" /\ r_call.copied = {}

\* C16: rollback_specific(id) restores the archive id, once, when it is in
\* the backup store, and returns false without restoring anything when it
\* is not.
C16_RollbackSpecific ==
    r_call.op = "rollback_specific" =>
        /\ r_call.outcome = "returned"
        /\ r_arg \in DOMAIN archives => r_call.target = r_arg
        /\ r_arg \notin DOMAIN archives =>
               /\ r_call.value = "false"
               /\ r_call.target = 0
               /\ r_call.copied = {}

\* the saved record that ledger entry i was built from
SavedFor(i) == r_saved[Len(r_saved) - Len(ledger) + i]

\* C17: the ledger holds at most 20 entries, which are the most recent
\* min(n, 20) of the n records saved, in the order they were saved; a save
\* appends one entry and drops at most the oldest, the others stay as they
\* were.
C17_Retained ==
    history_file = "valid" =>
        /\ Len(ledger) <= 20
        /\ Len(ledger) = IF Len(r_saved) < 20 THEN Len(r_saved) ELSE 20
        /\ \A i \in 1..Len(ledger) :
              /\ ledger[i].commands = Get(SavedFor(i), "commands", <<>>)
              /\ ledger[i].backup_path = Get(SavedFor(i), "backup_path", 0)

C17_OnlyOldestDropped ==
    [][(history_file = "valid" /\ history_file' = "valid"
        /\ ledger' # ledger) =>
          \E drop \in 0..1 :
              /\ Len(ledger') = Len(ledger) - drop + 1
              /\ \A i \in 1..(Len(ledger') - 1) :
                    ledger'[i] = ledger[i + drop]]_vars

C17_LedgerCap == []C17_Retained /\ C17_OnlyOldestDropped

\* more than 20 records were saved and the ledger holds the last 20
C17_Witness ==
    /\ history_file = "valid"
    /\ Len(r_saved) > 20
    /\ Len(ledger) = 20
    /\ ledger[20] # ledger[1]

\* C19: a ledger entry has success = true only if every output of the
\* execution it records has a success field that is true.
C19_AggregateSuccess ==
    history_file = "valid" =>
        \A i \in 1..Len(ledger) :
            ledger[i].success =>
                LET outs == Get(SavedFor(i), "outputs", <<>>)
                IN  \A k \in 1..Len(outs) :
                        "success" \in DOMAIN outs[k] /\ outs[k].success

\* the ledger holds an entry marked failed for an execution with an output
\* that has no success field, and one marked successful
C19_Witness ==
    /\ history_file = "valid"
    /\ \E i \in 1..Len(ledger) :
          LET outs == Get(SavedFor(i), "outputs", <<>>)
          IN  /\ ~ledger[i].success
              /\ \E k \in 1..Len(outs) : "success" \notin DOMAIN outs[k]
    /\ \E i \in 1..Len(ledger) :
          ledger[i].success /\ Get(SavedFor(i), "outputs", <<>>) # <<>>

\* C20: get_last_execution does not raise; it returns the entry of the most
\* recent save (same commands, same backup path), and none when the ledger
\* file is absent, empty or not valid JSON.
C20_GetLastExecution ==
    r_call.op = "get_last_execution" =>
        /\ r_call.outcome = "returned"
        /\ (history_file = "valid" /\ r_saved # <<>>) =>
               /\ r_call.value = "entry"
               /\ r_call.entry.commands =
                      Get(r_saved[Len(r_saved)], "commands", <<>>)
               /\ r_call.entry.backup_path =
                      Get(r_saved[Len(r_saved)], "backup_path", 0)
        /\ history_file # "valid" => r_call.value = "none"

(***************************************************************************)
(* Properties of the library functions.                                    *)
(***************************************************************************)
Parses(filename) ==
    GlobMatches(filename) /\ strptime_ok(timestamp_str(filename))

\* C21: list_backups returns one entry per archive of the store whose
\* identifier parses as backup_<YYYYMMDD_HHMMSS>.tar.gz, newest first; an
\* archive whose identifier does not parse is left out of the result and
\* does not make the call fail.
C21_ListBackups ==
    (l_op = "list_backups" /\ ~l_in.vanished) =>
        LET listing == l_in.listing
            backups == l_out.backups
        IN  /\ l_out.outcome = "returned"
            /\ {backups[i].id : i \in 1..Len(backups)}
                  = {listing[i] : i \in {k \in 1..Len(listing) :
                                            Parses(listing[k])}}
            /\ \A i, j \in 1..Len(backups) :
                  i < j => /\ backups[i].id # backups[j].id
                           /\ ~StrLess(timestamp_str(backups[i].id),
                                       timestamp_str(backups[j].id))

\* C23: is_destructive_command(c) is true exactly when a verb of the
\* destructive set is one of the whitespace-separated tokens of c (at the
\* start, between any whitespace, or alone); a word that only contains a
\* verb does not match.
C23_StandaloneToken ==
    l_op = "is_destructive_command" =>
        (l_out.value
            <=> \E k \in 1..Len(destructive_cmds) :
                    destructive_cmds[k] \in Range(Split(l_in.command)))

\* C24: process never raises: whatever the input, whichever stage fails and
\* whether debug mode is on or off, it returns a result, and when a stage
\* failed that result has executed = false and a reason.
C24_ProcessNeverRaises ==
    l_op = "process" =>
        /\ l_out.outcome = "returned"
        /\ "executed" \in DOMAIN l_out.result
        /\ l_in.fail_at # "none" =>
              ~l_out.result.executed /\ "reason" \in DOMAIN l_out.result

\* C26: when intent extraction and plan generation succeed (and, in debug
\* mode, the user accepts), process calls execute_plan exactly once, with
\* the generated actions in their order and requires_confirmation = true,
\* and logs history when the result is executed.
C26_DocumentedSequence ==
    (/\ l_op = "process"
     /\ l_in.fail_at \notin {"context", "intent", "plan"}
     /\ l_in.debug => l_in.accept) =>
        /\ Len(l_out.execute_plan) = 1
        /\ l_out.execute_plan[1].actions = l_in.generated.plan
        /\ l_out.execute_plan[1].requires_confirmation
        /\ (l_in.fail_at = "none" /\ l_in.executed.executed)
              => l_out.logged = 1

\* C25: from_dict(to_dict(p)) has the explanation, actions (in order),
\* requires_confirmation, requires_backup and backup_paths of p; from_dict
\* of a dictionary without the optional fields gives requires_confirmation
\* = true, requires_backup = false and backup_paths = [].
C25_RoundTrip ==
    l_op = "from_dict" =>
        LET p == l_in.plan
            r == l_out.plan
        IN  /\ l_in.keys = PlanKeys =>
                /\ r.explanation = p.explanation
                /\ r.actions = p.actions
                /\ r.requires_confirmation = p.requires_confirmation
                /\ r.requires_backup = p.requires_backup
                /\ r.backup_paths = p.backup_paths
            /\ "requires_confirmation" \notin l_in.keys =>
                r.requires_confirmation
            /\ "requires_backup" \notin l_in.keys => ~r.requires_backup
            /\ "backup_paths" \notin l_in.keys => r.backup_paths = <<>>

C25_Witness ==
    /\ l_op = "from_dict"
    /\ l_in.keys = PlanKeys
    /\ ~l_in.plan.requires_confirmation
    /\ l_in.plan.requires_backup
    /\ Len(l_in.plan.actions) = 2
    /\ l_in.plan.actions[1] # l_in.plan.actions[2]
    /\ l_in.plan.backup_paths # <<>>
    /\ l_out.plan = l_in.plan

\* C27: for an input generate_plan treats as a direct command, the plan has
\* exactly one shell_command action whose content is the input unchanged,
\* and requires_confirmation and requires_backup both equal
\* is_destructive_command(input): a direct command classified destructive
\* requires confirmation and a backup.
C27_DirectCommandPlan ==
    (l_op = "generate_plan" /\ is_direct_command(l_in.user_request)) =>
        LET p == l_out.plan
            destructive == is_destructive_command(l_in.user_request)
        IN  /\ Len(p.actions) = 1
            /\ p.actions[1].type = "shell_command"
            /\ p.actions[1].content = l_in.user_request
            /\ p.requires_confirmation <=> destructive
            /\ p.requires_backup <=> destructive
            /\ destructive => p.requires_confirmation /\ p.requires_backup

C27_Witness ==
    /\ l_op = "generate_plan"
    /\ l_in.user_request = <<" ">> \o cmd_rm_a
    /\ is_direct_command(l_in.user_request)
    /\ l_out.plan.actions[1].content = l_in.user_request
    /\ l_out.plan.requires_confirmation
    /\ l_out.plan.requires_backup

\* C28: search_history returns at most limit entries, for every limit >= 0,
\* most recent first, and each returned entry passes every filter given
\* (action type, query text, directory).
C28_SearchHistory ==
    l_op = "search_history" =>
        LET results == l_out.results IN
        /\ Len(results) <= l_in.limit
        /\ \A i, j \in 1..Len(results) :
              i < j => results[i].unix_timestamp > results[j].unix_timestamp
        /\ \A i \in 1..Len(results) :
              /\ results[i] \in Range(l_in.history)
              /\ l_in.action_type # ""
                    => results[i].action_type = l_in.action_type
              /\ l_in.directory # ""
                    => results[i].directory = l_in.directory
              /\ l_in.query # <<>>
                    => Contains(
                          Lower(results[i][
                              SearchedField(results[i].action_type)]),
                          Lower(l_in.query))

(***************************************************************************)
(* The two records of an executed plan.                                    *)
(***************************************************************************)
\* C29: for a logged result with executed = true, the rollback ledger entry
\* and the HistoryManager action_plan entry written for it carry the same
\* backup path and the same aggregate success flag.
C29_RecordsAgree ==
    (pc = "done" /\ result.executed) =>
        /\ Len(ledger) = Len(plan_history)
        /\ ledger # <<>>
        /\ ledger[Len(ledger)].backup_path
              = plan_history[Len(plan_history)].backup_path
        /\ ledger[Len(ledger)].success
              <=> plan_history[Len(plan_history)].success

\* an executed plan with a backup and a failed action, logged twice
C29_Witness ==
    /\ pc = "done"
    /\ result.executed
    /\ result.backup_path # 0
    /\ \E i \in 1..Len(result.outputs) : ~result.outputs[i].success
    /\ ledger # <<>>
    /\ plan_history # <<>>
    /\ ~plan_history[Len(plan_history)].success
    /\ plan_history[Len(plan_history)].backup_path = result.backup_path

(***************************************************************************)
(* What a restore leaves alone.                                            *)
(***************************************************************************)
RestoreOps == {"_restore_from_backup", "rollback_last", "rollback_specific"}

====
